---- MODULE Spec2Model ----
(***************************************************************************)
(* eldim: the configuration model (config/config.go) and the startup       *)
(* sequence of the server (main.go).                                       *)
(*                                                                         *)
(* Strings whose length or characters the code inspects (passwords, the    *)
(* Prometheus credentials, the textual form of an IP address) are tuples   *)
(* of one-character strings; strings that are only compared (names, paths) *)
(* are TLA+ strings.  A net.IP is a tuple of 16 bytes, nil is <<>>.        *)
(***************************************************************************)
EXTENDS Integers, Sequences, FiniteSets, TLC

VARIABLES
    pc,         \* main's position
    conf,       \* main.go: var conf config.Config
    clients,    \* main.go: var clients []config.ClientConfig
    fs,         \* the files the process reads: config, TLS chain, TLS key, roster
    verr,       \* the error Config.Validate returned to main ("unset" before the call)
    vfc,        \* Config.Validate's ioutil.ReadFile(conf.ClientFile) result
    veval,      \* how many of Config.Validate's checks were evaluated
    fatal,      \* the logrus.Fatalf diagnostic the process died with ("none" if alive)
    steps,      \* the startup steps main completed, in order
    routes,     \* the routes registered on the httprouter
    served,     \* requests the server answered
    matched,    \* the roster entries the last request authenticated as
    changes,    \* how often the roster file was rewritten by its owner
    client,     \* a ClientConfig the accessors and Validate are called on
    cerr,       \* the error of the last client.Validate() call ("unset" before)
    last,       \* the method called on client last ("none" before the first call)
    ncalls      \* method calls made on client

vars == <<pc, conf, clients, fs, verr, vfc, veval, fatal, steps, routes,
          served, matched, changes, client, cerr, last, ncalls>>

mainVars == <<pc, conf, clients, fs, verr, vfc, veval, fatal, steps, routes,
              served, matched, changes>>

clientVars == <<client, cerr, last, ncalls>>

Nil == "nil"

(***************************************************************************)
(* Bounds of the model.                                                    *)
(***************************************************************************)
MaxAddrs == 1          \* addresses per list of the client the methods are called on
MaxCalls == 3          \* method calls on that client
MaxClients == 2        \* entries of a roster
MaxFileChanges == 1    \* rewrites of the roster file during startup
MaxRequests == 1       \* requests the running server answers

(***************************************************************************)
(* Strings as tuples of characters.                                        *)
(***************************************************************************)
Rep(c, n) == [i \in 1..n |-> c]

Contains(s, c) == \E i \in 1..Len(s) : s[i] = c

Digits == <<"0", "1", "2", "3", "4", "5", "6", "7", "8", "9">>

HexDigits == Digits \o <<"a", "b", "c", "d", "e", "f">>

RECURSIVE Dec(_)
Dec(n) == IF n < 10 THEN <<Digits[n + 1]>>
          ELSE Dec(n \div 10) \o <<Digits[(n % 10) + 1]>>

RECURSIVE Hex(_)
Hex(n) == IF n < 16 THEN <<HexDigits[n + 1]>>
          ELSE Hex(n \div 16) \o <<HexDigits[(n % 16) + 1]>>

(***************************************************************************)
(* net.IP, net.ParseIP and IP.String.                                      *)
(***************************************************************************)
NilIP == <<>>

V4(a, b, c, d) == [i \in 1..16 |->
                     CASE i \in 1..10 -> 0
                       [] i \in 11..12 -> 255
                       [] i = 13 -> a
                       [] i = 14 -> b
                       [] i = 15 -> c
                       [] OTHER -> d]

V6(hi, lo) == [i \in 1..16 |->
                 CASE i = 1 -> hi \div 256
                   [] i = 2 -> hi % 256
                   [] i = 15 -> lo \div 256
                   [] i = 16 -> lo % 256
                   [] OTHER -> 0]

\* The address texts of the model and what net.ParseIP returns for each.
AddrTexts == {"10.0.0.1", "::ffff:10.0.0.1", "10.0.0.2", "fd00::1",
              "FD00:0:0:0:0:0:0:1", "fd00::2", "not-an-ip"}

ParseIP(text) ==
    CASE text = "10.0.0.1" -> V4(10, 0, 0, 1)
      [] text = "::ffff:10.0.0.1" -> V4(10, 0, 0, 1)
      [] text = "10.0.0.2" -> V4(10, 0, 0, 2)
      [] text = "fd00::1" -> V6(64768, 1)
      [] text = "FD00:0:0:0:0:0:0:1" -> V6(64768, 1)
      [] text = "fd00::2" -> V6(64768, 2)
      [] OTHER -> NilIP

\* IP.To4: the 4-byte form of an IPv4 or IPv4-mapped address, else nil.
To4(ip) ==
    IF Len(ip) = 16 /\ (\A i \in 1..10 : ip[i] = 0) /\ ip[11] = 255 /\ ip[12] = 255
    THEN <<ip[13], ip[14], ip[15], ip[16]>>
    ELSE NilIP

Group(ip, g) == ip[2 * g - 1] * 256 + ip[2 * g]

\* The zero run starting at group g: the first group after it.
RECURSIVE ZeroRunEnd(_, _)
ZeroRunEnd(ip, g) == IF g <= 8 /\ Group(ip, g) = 0 THEN ZeroRunEnd(ip, g + 1) ELSE g

\* The longest run of zero groups, the first one on a tie: <<first, after>>.
RECURSIVE LongestRun(_, _, _)
LongestRun(ip, g, best) ==
    IF g > 8 THEN best
    ELSE LET j == ZeroRunEnd(ip, g)
         IN IF j > g /\ j - g > best[2] - best[1]
            THEN LongestRun(ip, j + 1, <<g, j>>)
            ELSE LongestRun(ip, g + 1, best)

RECURSIVE PrintGroups(_, _, _)
PrintGroups(ip, g, run) ==
    IF g > 8 THEN <<>>
    ELSE IF g = run[1]
         THEN <<":", ":">> \o
              (IF run[2] > 8 THEN <<>>
               ELSE Hex(Group(ip, run[2])) \o PrintGroups(ip, run[2] + 1, run))
         ELSE (IF g > 1 THEN <<":">> ELSE <<>>) \o Hex(Group(ip, g))
              \o PrintGroups(ip, g + 1, run)

IPString(ip) ==
    IF Len(ip) = 0 THEN <<"<", "n", "i", "l", ">">>
    ELSE LET p4 == To4(ip)
         IN IF Len(p4) = 4
            THEN Dec(p4[1]) \o <<".">> \o Dec(p4[2]) \o <<".">> \o Dec(p4[3])
                 \o <<".">> \o Dec(p4[4])
            ELSE LET found == LongestRun(ip, 1, <<0, 0>>)
                     run == IF found[2] - found[1] <= 1 THEN <<0, 0>> ELSE found
                 IN PrintGroups(ip, 1, run)

(***************************************************************************)
(* ClientConfig and its methods.                                           *)
(***************************************************************************)
MinPasswordLen == 32

MaxPasswordLen == 128

ClientConfig(name, ipv4, ipv6, password) ==
    [ClientName |-> name, IPv4Addr |-> ipv4, IPv6Addr |-> ipv6, Password |-> password]

\* Name: the name, after replacing an empty one in the receiver.
NameReceiver(c) ==
    IF c.ClientName = "" THEN [c EXCEPT !.ClientName = "Unnamed Client"] ELSE c

Name(c) == NameReceiver(c).ClientName

IPv4(c) == [i \in 1..Len(c.IPv4Addr) |-> ParseIP(c.IPv4Addr[i])]

IPv6(c) == [i \in 1..Len(c.IPv6Addr) |-> ParseIP(c.IPv6Addr[i])]

Range(s) == {s[i] : i \in 1..Len(s)}

\* ClientConfig.Validate with the IPv4/IPv6 list checks left out.
ClientValidateNoFamily(c) ==
    IF c.ClientName = "" THEN "Client has no name"
    ELSE IF \E ip \in Range(IPv6(c) \o IPv4(c)) : ip = NilIP
    THEN "Client contains an invalid IP Address"
    ELSE IF c.Password = <<>> /\ Len(IPv4(c)) = 0 /\ Len(IPv6(c)) = 0
    THEN "Client does not have at least one of (password, IPv6, IPv4)"
    ELSE IF Len(c.Password) < MinPasswordLen /\ c.Password # <<>>
    THEN "Client has a password shorter than 32 characters"
    ELSE IF Len(c.Password) > MaxPasswordLen
    THEN "Client has a password longer than 128 characters"
    ELSE Nil

ClientValidate(c) ==
    IF c.ClientName = "" THEN "Client has no name"
    ELSE IF \E ip \in Range(IPv6(c) \o IPv4(c)) : ip = NilIP
    THEN "Client contains an invalid IP Address"
    ELSE IF \E v4 \in Range(IPv4(c)) : ~Contains(IPString(v4), ".")
    THEN "Client contains a non-IPv4 in IPv4 list"
    ELSE IF \E v6 \in Range(IPv6(c)) :
              ~Contains(IPString(v6), ":") \/ Contains(IPString(v6), ".")
    THEN "Client contains a non-IPv6 in IPv6 list"
    ELSE IF c.Password = <<>> /\ Len(IPv4(c)) = 0 /\ Len(IPv6(c)) = 0
    THEN "Client does not have at least one of (password, IPv6, IPv4)"
    ELSE IF Len(c.Password) < MinPasswordLen /\ c.Password # <<>>
    THEN "Client has a password shorter than 32 characters"
    ELSE IF Len(c.Password) > MaxPasswordLen
    THEN "Client has a password longer than 128 characters"
    ELSE Nil

(***************************************************************************)
(* Method calls on one ClientConfig.                                       *)
(***************************************************************************)
CallValidate ==
    /\ ncalls < MaxCalls
    /\ cerr' = ClientValidate(client)
    /\ last' = "Validate"
    /\ ncalls' = ncalls + 1
    /\ UNCHANGED client
    /\ UNCHANGED mainVars

CallName ==
    /\ ncalls < MaxCalls
    /\ client' = NameReceiver(client)
    /\ last' = "Name"
    /\ ncalls' = ncalls + 1
    /\ UNCHANGED cerr
    /\ UNCHANGED mainVars

CallIPv4 ==
    /\ ncalls < MaxCalls
    /\ last' = "IPv4"
    /\ ncalls' = ncalls + 1
    /\ UNCHANGED <<client, cerr>>
    /\ UNCHANGED mainVars

CallIPv6 ==
    /\ ncalls < MaxCalls
    /\ last' = "IPv6"
    /\ ncalls' = ncalls + 1
    /\ UNCHANGED <<client, cerr>>
    /\ UNCHANGED mainVars

NextClient == CallValidate \/ CallName \/ CallIPv4 \/ CallIPv6

(***************************************************************************)
(* The files of the process.  fs maps a path to [state, data]; a path      *)
(* outside its domain, or in state "absent", does not exist.  State        *)
(* "noopen" is a file that cannot be opened, "noclose" one whose Close     *)
(* fails.  data is the parsed document, or Garbage for bytes that are not  *)
(* YAML.                                                                   *)
(***************************************************************************)
ConfigPath == "/etc/eldim/eldim.yml"

ChainPath == "/etc/eldim/chain.pem"

KeyPath == "/etc/eldim/key.pem"

RosterPath == "/etc/eldim/clients.yml"

File(state, data) == [state |-> state, data |-> data]

Garbage == [kind |-> "garbage"]

Yaml(doc) == [kind |-> "yaml", doc |-> doc]

\* os.Open followed by Close, as Config.Validate probes the TLS files.
OsOpenErr(path, f) ==
    IF path \notin DOMAIN f \/ f[path].state \in {"absent", "noopen"} THEN "open"
    ELSE IF f[path].state = "noclose" THEN "close"
    ELSE Nil

\* ioutil.ReadFile: [err, data].
ReadFile(path, f) ==
    IF path \notin DOMAIN f \/ f[path].state \in {"absent", "noopen"}
    THEN [err |-> "read", data |-> Yaml(<<>>)]
    ELSE [err |-> Nil, data |-> f[path].data]

\* yaml.Unmarshal into a zero value: [err, value]; value stays zero on error.
Unmarshal(data, zero) ==
    IF data.kind = "garbage" THEN [err |-> "yaml", value |-> zero]
    ELSE [err |-> Nil, value |-> data.doc]

(***************************************************************************)
(* Config and Config.Validate.                                             *)
(***************************************************************************)
MaxPort == 65535

MinCredLen == 20

MaxCredLen == 128

AlnumChars ==
    {
     "a", "b", "c", "d", "e", "f", "g", "h", "i", "j", "k", "l", "m",
     "n", "o", "p", "q", "r", "s", "t", "u", "v", "w", "x", "y", "z",
     "A", "B", "C", "D", "E", "F", "G", "H", "I", "J", "K", "L", "M",
     "N", "O", "P", "Q", "R", "S", "T", "U", "V", "W", "X", "Y", "Z",
     "0", "1", "2", "3", "4", "5", "6", "7", "8", "9"}

\* regexp "^[a-zA-Z0-9]{20,128}$"
MatchCred(s) ==
    /\ Len(s) >= MinCredLen
    /\ Len(s) <= MaxCredLen
    /\ \A i \in 1..Len(s) : s[i] \in AlnumChars

\* The backends' own Validate (internal/swift, internal/gcs, internal/s3).
BackendValidate(b) == IF b.valid THEN Nil ELSE "invalid backend"

\* age.ParseX25519Recipient and agessh.ParseRecipient on the model's recipients.
ParseX25519Recipient(r) == IF r = "age1qvalid" THEN Nil ELSE "malformed recipient"

ParseSSHRecipient(r) == IF r = "ssh-ed25519 AAAAvalid" THEN Nil ELSE "malformed SSH recipient"

ZeroConfig ==
    [ListenPort |-> 0, MaxUploadRAM |-> 0, TLSChainPath |-> "", TLSKeyPath |-> "",
     SwiftBackends |-> <<>>, GCSBackends |-> <<>>, S3Backends |-> <<>>,
     ClientFile |-> "", EncryptionKey |-> "", AgeID |-> <<>>, AgeSSH |-> <<>>,
     PrometheusEnabled |-> FALSE, PrometheusAuthUser |-> <<>>,
     PrometheusAuthPass |-> <<>>]

ListenPortErr(c) ==
    IF c.ListenPort < 0 THEN "TCP Listening Port must be positive number"
    ELSE IF c.ListenPort > MaxPort THEN "TCP Listening Port must be below 65535"
    ELSE Nil

TLSChainErr(c, f) ==
    IF c.TLSChainPath = "" THEN "TLS Chain File is required"
    ELSE IF OsOpenErr(c.TLSChainPath, f) = "open" THEN "Failed to open TLS Chain File"
    ELSE IF OsOpenErr(c.TLSChainPath, f) = "close" THEN "Failed to close TLS Chain File"
    ELSE Nil

TLSKeyErr(c, f) ==
    IF c.TLSKeyPath = "" THEN "TLS Key File is required"
    ELSE IF OsOpenErr(c.TLSKeyPath, f) = "open" THEN "Failed to open TLS Key File"
    ELSE IF OsOpenErr(c.TLSKeyPath, f) = "close" THEN "Failed to close TLS Key File"
    ELSE Nil

BackendsErr(list, msg) ==
    IF \E i \in 1..Len(list) : BackendValidate(list[i]) # Nil THEN msg ELSE Nil

\* The backend count check never firing.
AnyBackendErrNever(c) == Nil

AnyBackendErr(c) ==
    IF Len(c.SwiftBackends) + Len(c.GCSBackends) + Len(c.S3Backends) = 0
    THEN "eldim needs at least one backend to operate, 0 found"
    ELSE Nil

MaxUploadRAMErr(c) ==
    IF c.MaxUploadRAM <= 0 THEN "Maximum Upload RAM must be a positive number" ELSE Nil

\* The deprecated key accepted.
EncryptionKeyAccepted(c) == Nil

EncryptionKeyErr(c) ==
    IF c.EncryptionKey # "" THEN "Use of encryption key is deprecated since v0.6.0" ELSE Nil

AnyRecipientErr(c) ==
    IF Len(c.AgeID) + Len(c.AgeSSH) = 0
    THEN "Please configure at least one age encryption key"
    ELSE Nil

AgeIDErr(c) ==
    IF \E i \in 1..Len(c.AgeID) : ParseX25519Recipient(c.AgeID[i]) # Nil
    THEN "Failed to parse age Identity"
    ELSE Nil

AgeSSHErr(c) ==
    IF \E i \in 1..Len(c.AgeSSH) : ParseSSHRecipient(c.AgeSSH[i]) # Nil
    THEN "Failed to parse age ssh key Identity"
    ELSE Nil

\* The Prometheus block with the enabled flag ignored.
PrometheusErrAlways(c) ==
    IF c.PrometheusAuthUser = <<>> THEN "You need to set the prometheusauthuser"
    ELSE IF ~MatchCred(c.PrometheusAuthUser)
    THEN "The prometheusauthuser must contain a-z, A-Z, and 0-9, and must be 20-128 characters long"
    ELSE IF c.PrometheusAuthPass = <<>> THEN "You need to set the prometheusauthpass"
    ELSE IF ~MatchCred(c.PrometheusAuthPass)
    THEN "The prometheusauthpass must contain a-z, A-Z, and 0-9, and must be 20-128 characters long"
    ELSE Nil

PrometheusErr(c) ==
    IF c.PrometheusEnabled
    THEN IF c.PrometheusAuthUser = <<>> THEN "You need to set the prometheusauthuser"
         ELSE IF ~MatchCred(c.PrometheusAuthUser)
         THEN "The prometheusauthuser must contain a-z, A-Z, and 0-9, and must be 20-128 characters long"
         ELSE IF c.PrometheusAuthPass = <<>> THEN "You need to set the prometheusauthpass"
         ELSE IF ~MatchCred(c.PrometheusAuthPass)
         THEN "The prometheusauthpass must contain a-z, A-Z, and 0-9, and must be 20-128 characters long"
         ELSE Nil
    ELSE Nil

\* What Config.Validate reads and decodes of the roster file.
RosterRead(c, f) == ReadFile(c.ClientFile, f)

RosterOf(fc) == Unmarshal(fc.data, <<>>)

ClientFileErr(c, f) ==
    IF c.ClientFile = "" THEN "Did not supply a clients config file"
    ELSE IF RosterRead(c, f).err # Nil THEN "Failed to open clients file"
    ELSE IF RosterOf(RosterRead(c, f)).err # Nil THEN "Unable to decode client file YAML"
    ELSE IF Len(RosterOf(RosterRead(c, f)).value) = 0 THEN "No clients have been supplied"
    ELSE Nil

EachClientErr(cs) ==
    IF \E i \in 1..Len(cs) : ClientValidate(cs[i]) # Nil THEN "Client is invalid" ELSE Nil

\* The inner loop of the duplicate check over one client's addresses:
\* [dup, set], keyed by the addresses' String().
RECURSIVE ReusedIP(_, _, _)
ReusedIP(ips, k, ipSet) ==
    IF k > Len(ips) THEN [dup |-> FALSE, set |-> ipSet]
    ELSE IF IPString(ips[k]) \in ipSet THEN [dup |-> TRUE, set |-> ipSet]
    ELSE ReusedIP(ips, k + 1, ipSet \cup {IPString(ips[k])})

\* The duplicate check with the address keys taken from the text as written.
RECURSIVE UniqueFromByText(_, _, _, _, _)
UniqueFromByText(cs, i, nameSet, passSet, ipSet) ==
    IF i > Len(cs) THEN Nil
    ELSE IF Name(cs[i]) \in nameSet THEN "Client does not have a unique name"
    ELSE IF cs[i].Password # <<>> /\ cs[i].Password \in passSet
    THEN "Client does not have a unique password"
    ELSE LET texts == cs[i].IPv6Addr \o cs[i].IPv4Addr
         IN IF \/ \E k \in 1..Len(texts) : texts[k] \in ipSet
               \/ \E k, l \in 1..Len(texts) : k # l /\ texts[k] = texts[l]
            THEN "Client reuses an IP Address"
            ELSE UniqueFromByText(cs, i + 1, nameSet \cup {Name(cs[i])},
                     IF cs[i].Password # <<>> THEN passSet \cup {cs[i].Password}
                     ELSE passSet,
                     ipSet \cup Range(texts))

RECURSIVE UniqueFrom(_, _, _, _, _)
UniqueFrom(cs, i, nameSet, passSet, ipSet) ==
    IF i > Len(cs) THEN Nil
    ELSE IF Name(cs[i]) \in nameSet THEN "Client does not have a unique name"
    ELSE IF cs[i].Password # <<>> /\ cs[i].Password \in passSet
    THEN "Client does not have a unique password"
    ELSE LET r == ReusedIP(IPv6(cs[i]) \o IPv4(cs[i]), 1, ipSet)
         IN IF r.dup THEN "Client reuses an IP Address"
            ELSE UniqueFrom(cs, i + 1, nameSet \cup {Name(cs[i])},
                     IF cs[i].Password # <<>> THEN passSet \cup {cs[i].Password}
                     ELSE passSet,
                     r.set)

\* The duplicate check skipped.
UniqueClientsSkipped(cs) == Nil

UniqueClientsErr(cs) == UniqueFrom(cs, 1, {}, {}, {})

Check(name, err) == [check |-> name, err |-> err]

\* The checks of Config.Validate in the order of the code, each with the
\* error it would return; with the RAM check moved before the backends.
ValidateChecksRAMFirst(c, f) ==
    LET cs == RosterOf(RosterRead(c, f)).value
    IN << Check("ListenPort", ListenPortErr(c)),
          Check("TLSChain", TLSChainErr(c, f)),
          Check("TLSKey", TLSKeyErr(c, f)),
          Check("MaxUploadRAM", MaxUploadRAMErr(c)),
          Check("SwiftBackends",
                BackendsErr(c.SwiftBackends, "Failed to validate OpenStack Swift Backend")),
          Check("GCSBackends",
                BackendsErr(c.GCSBackends, "Failed to validate Google Cloud Storage Backend")),
          Check("S3Backends", BackendsErr(c.S3Backends, "Failed to validate S3 Backend")),
          Check("AnyBackend", AnyBackendErr(c)),
          Check("EncryptionKey", EncryptionKeyErr(c)),
          Check("AnyRecipient", AnyRecipientErr(c)),
          Check("AgeID", AgeIDErr(c)),
          Check("AgeSSH", AgeSSHErr(c)),
          Check("Prometheus", PrometheusErr(c)),
          Check("ClientFile", ClientFileErr(c, f)),
          Check("EachClient", EachClientErr(cs)),
          Check("UniqueClients", UniqueClientsErr(cs)) >>

ValidateChecks(c, f) ==
    LET cs == RosterOf(RosterRead(c, f)).value
    IN << Check("ListenPort", ListenPortErr(c)),
          Check("TLSChain", TLSChainErr(c, f)),
          Check("TLSKey", TLSKeyErr(c, f)),
          Check("SwiftBackends",
                BackendsErr(c.SwiftBackends, "Failed to validate OpenStack Swift Backend")),
          Check("GCSBackends",
                BackendsErr(c.GCSBackends, "Failed to validate Google Cloud Storage Backend")),
          Check("S3Backends", BackendsErr(c.S3Backends, "Failed to validate S3 Backend")),
          Check("AnyBackend", AnyBackendErr(c)),
          Check("MaxUploadRAM", MaxUploadRAMErr(c)),
          Check("EncryptionKey", EncryptionKeyErr(c)),
          Check("AnyRecipient", AnyRecipientErr(c)),
          Check("AgeID", AgeIDErr(c)),
          Check("AgeSSH", AgeSSHErr(c)),
          Check("Prometheus", PrometheusErr(c)),
          Check("ClientFile", ClientFileErr(c, f)),
          Check("EachClient", EachClientErr(cs)),
          Check("UniqueClients", UniqueClientsErr(cs)) >>

\* Run the checks from the i-th on and return at the first error.
RECURSIVE FirstError(_, _)
FirstError(ch, i) ==
    IF i > Len(ch) THEN [err |-> Nil, check |-> "", evaluated |-> Len(ch)]
    ELSE IF ch[i].err # Nil
    THEN [err |-> ch[i].err, check |-> ch[i].check, evaluated |-> i]
    ELSE FirstError(ch, i + 1)

Unread == [err |-> "unread", data |-> Yaml(<<>>)]

\* Config.Validate: the error returned, the check that returned it, the
\* number of checks evaluated, and the roster file as read (if it was).
ConfigValidate(c, f) ==
    LET ch == ValidateChecks(c, f)
        r == FirstError(ch, 1)
        reads == \E i \in 1..r.evaluated : ch[i].check = "ClientFile"
    IN [err |-> r.err, check |-> r.check, evaluated |-> r.evaluated,
        fc |-> IF reads /\ c.ClientFile # "" THEN RosterRead(c, f) ELSE Unread]

(***************************************************************************)
(* Authentication of a request against a roster (spec section 4.4).        *)
(***************************************************************************)
MatchesPassword(c, secret) == secret # <<>> /\ secret = c.Password

MatchesIP(c, ip) == ip \in Range(IPv4(c)) \cup Range(IPv6(c))

Matches(c, ip, secret) == MatchesPassword(c, secret) \/ MatchesIP(c, ip)

MatchSet(cs, ip, secret) == {i \in 1..Len(cs) : Matches(cs[i], ip, secret)}

(***************************************************************************)
(* main.                                                                   *)
(***************************************************************************)
Die(msg) ==
    /\ fatal' = msg
    /\ pc' = "exit"

\* ioutil.ReadFile(*configPath) and yaml.Unmarshal(confb, &conf)
LoadConfig ==
    /\ pc = "start"
    /\ LET r == ReadFile(ConfigPath, fs)
           u == Unmarshal(r.data, ZeroConfig)
       IN IF r.err # Nil
          THEN /\ Die("Could not open configuration file")
               /\ UNCHANGED <<conf, steps>>
          ELSE IF u.err # Nil
          THEN /\ Die("Could not parse the YAML configuration file")
               /\ steps' = Append(steps, "ReadConfig")
               /\ UNCHANGED conf
          ELSE /\ conf' = u.value
               /\ steps' = steps \o <<"ReadConfig", "ParseConfig">>
               /\ pc' = "loaded"
               /\ UNCHANGED fatal
    /\ UNCHANGED <<clients, fs, verr, vfc, veval, routes, served, matched, changes>>
    /\ UNCHANGED clientVars

\* conf.Validate() with its error ignored.
MainValidateUnchecked ==
    /\ pc = "loaded"
    /\ LET r == ConfigValidate(conf, fs)
       IN /\ verr' = r.err
          /\ vfc' = r.fc
          /\ veval' = r.evaluated
          /\ steps' = Append(steps, "Validate")
          /\ pc' = "validated"
          /\ UNCHANGED fatal
    /\ UNCHANGED <<conf, clients, fs, routes, served, matched, changes>>
    /\ UNCHANGED clientVars

\* err = conf.Validate(); if err != nil { logrus.Fatalf(...) }
MainValidate ==
    /\ pc = "loaded"
    /\ LET r == ConfigValidate(conf, fs)
       IN /\ verr' = r.err
          /\ vfc' = r.fc
          /\ veval' = r.evaluated
          /\ IF r.err # Nil
             THEN /\ Die("Invalid configuration")
                  /\ UNCHANGED steps
             ELSE /\ steps' = Append(steps, "Validate")
                  /\ pc' = "validated"
                  /\ UNCHANGED fatal
    /\ UNCHANGED <<conf, clients, fs, routes, served, matched, changes>>
    /\ UNCHANGED clientVars

\* ioutil.ReadFile(conf.ClientFile) and yaml.Unmarshal(clib, &clients)
LoadClients ==
    /\ pc = "validated"
    /\ LET r == ReadFile(conf.ClientFile, fs)
           u == Unmarshal(r.data, <<>>)
       IN IF r.err # Nil
          THEN /\ Die("Could not open clients file")
               /\ UNCHANGED <<clients, steps>>
          ELSE IF u.err # Nil
          THEN /\ Die("Could not parse clients YML file")
               /\ steps' = Append(steps, "ReadClients")
               /\ UNCHANGED clients
          ELSE /\ clients' = u.value
               /\ steps' = steps \o <<"ReadClients", "ParseClients">>
               /\ pc' = "clients"
               /\ UNCHANGED fatal
    /\ UNCHANGED <<conf, fs, verr, vfc, veval, routes, served, matched, changes>>
    /\ UNCHANGED clientVars

\* httprouter.New() and the route registrations
RegisterRoutes ==
    /\ pc = "clients"
    /\ routes' = {"GET /", "POST /api/v1/file/upload/"}
                 \cup (IF conf.PrometheusEnabled THEN {"GET /metrics"} ELSE {})
    /\ steps' = Append(steps, "Routes")
    /\ pc' = "configured"
    /\ UNCHANGED <<conf, clients, fs, verr, vfc, veval, fatal, served, matched, changes>>
    /\ UNCHANGED clientVars

\* server.ListenAndServeTLS: it loads the TLS material and binds the port,
\* and either may fail.
ListenAndServeTLS ==
    /\ pc = "configured"
    /\ \E outcome \in {"serving", "tls", "bind"} :
          IF outcome = "serving"
          THEN /\ pc' = "serving"
               /\ steps' = Append(steps, "Listen")
               /\ UNCHANGED fatal
          ELSE /\ Die("Failed to start HTTP Server")
               /\ UNCHANGED steps
    /\ UNCHANGED <<conf, clients, fs, verr, vfc, veval, routes, served, matched, changes>>
    /\ UNCHANGED clientVars

\* The requests of the model: source addresses and supplied secrets.
SourceIPs == {V4(10, 0, 0, 1), V4(10, 0, 0, 2), V6(64768, 1), V4(192, 0, 2, 9)}

Password(ch) == Rep(ch, MinPasswordLen)

Secrets == {<<>>, Password("p"), Password("q"), Password("x")}

(***************************************************************************)
(* The configurations and rosters of the model.                            *)
(***************************************************************************)
Backend(name, valid) == [name |-> name, valid |-> valid]

BaseConfig ==
    [ListenPort |-> 8443, MaxUploadRAM |-> 100, TLSChainPath |-> ChainPath,
     TLSKeyPath |-> KeyPath, SwiftBackends |-> <<Backend("swift-1", TRUE)>>,
     GCSBackends |-> <<>>, S3Backends |-> <<>>, ClientFile |-> RosterPath,
     EncryptionKey |-> "", AgeID |-> <<"age1qvalid">>, AgeSSH |-> <<>>,
     PrometheusEnabled |-> FALSE, PrometheusAuthUser |-> <<>>,
     PrometheusAuthPass |-> <<>>]

Alpha == ClientConfig("alpha", <<"10.0.0.1">>, <<>>, <<>>)

Bravo == ClientConfig("bravo", <<>>, <<"fd00::1">>, Password("p"))

Charlie == ClientConfig("charlie", <<>>, <<>>, Password("q"))

\* Alpha's name, another address.
Alpha2 == ClientConfig("alpha", <<"10.0.0.2">>, <<>>, <<>>)

\* Alpha's address, written as an IPv4-mapped address.
Delta == ClientConfig("delta", <<"::ffff:10.0.0.1">>, <<>>, <<>>)

\* Bravo's address, written in full and in capitals.
Echo == ClientConfig("echo", <<>>, <<"FD00:0:0:0:0:0:0:1">>, <<>>)

\* Bravo's password.
Foxtrot == ClientConfig("foxtrot", <<"10.0.0.2">>, <<>>, Password("p"))

\* No name.
Golf == ClientConfig("", <<>>, <<>>, Password("q"))

\* An IPv6 address in the IPv4 list.
Hotel == ClientConfig("hotel", <<"fd00::2">>, <<>>, <<>>)

\* One address listed twice.
Juliet == ClientConfig("juliet", <<"10.0.0.2", "10.0.0.2">>, <<>>, <<>>)

ClientPool == {Alpha, Bravo, Charlie, Alpha2, Delta, Echo, Foxtrot, Golf, Hotel, Juliet}

\* What the roster file holds at start, and what its owner may replace it by.
RosterRewrites ==
    {File("ok", Yaml(<<Alpha, Bravo>>)), File("ok", Yaml(<<Alpha, Alpha2>>)),
     File("ok", Yaml(<<Golf>>)), File("ok", Garbage), File("absent", Yaml(<<>>))}

\* An upload request reaches the running server and is authenticated
\* against the roster main loaded.
Request ==
    /\ pc = "serving"
    /\ served < MaxRequests
    /\ \E ip \in SourceIPs, secret \in Secrets :
          matched' = MatchSet(clients, ip, secret)
    /\ served' = served + 1
    /\ UNCHANGED <<pc, conf, clients, fs, verr, vfc, veval, fatal, steps, routes, changes>>
    /\ UNCHANGED clientVars

\* The owner of the roster file rewrites it while the process starts.
RosterFileChange ==
    /\ pc \in {"start", "loaded", "validated"}
    /\ changes < MaxFileChanges
    /\ \E file \in RosterRewrites :
          /\ file # fs[RosterPath]
          /\ fs' = [fs EXCEPT ![RosterPath] = file]
    /\ changes' = changes + 1
    /\ UNCHANGED <<pc, conf, clients, verr, vfc, veval, fatal, steps, routes, served, matched>>
    /\ UNCHANGED clientVars

NextValidate == LoadConfig \/ MainValidate

Next ==
    \/ LoadConfig
    \/ MainValidate
    \/ LoadClients
    \/ RegisterRoutes
    \/ ListenAndServeTLS
    \/ Request
    \/ RosterFileChange

(***************************************************************************)
(* Initial states.                                                         *)
(***************************************************************************)
MkFS(config, chain, key, roster) ==
    (ConfigPath :> config) @@ (ChainPath :> chain) @@ (KeyPath :> key)
    @@ (RosterPath :> roster)

PEM == File("ok", Yaml(<<>>))

\* The process as started, before main reads anything.
Started(f) ==
    /\ pc = "start"
    /\ conf = ZeroConfig
    /\ clients = <<>>
    /\ fs = f
    /\ verr = "unset"
    /\ vfc = Unread
    /\ veval = 0
    /\ fatal = "none"
    /\ steps = <<>>
    /\ routes = {}
    /\ served = 0
    /\ matched = {}
    /\ changes = 0

NoClientCalls ==
    /\ client = Alpha
    /\ cerr = "unset"
    /\ last = "none"
    /\ ncalls = 0

\* Method calls on one client: every client over the model's texts.
SeqsUpTo(S, n) == UNION {[1..k -> S] : k \in 0..n}

ClientAddrTexts == {"10.0.0.1", "::ffff:10.0.0.1", "fd00::1", "not-an-ip"}

ClientPasswords ==
    {<<>>, Rep("p", MinPasswordLen - 1), Rep("p", MinPasswordLen),
     Rep("p", MaxPasswordLen), Rep("p", MaxPasswordLen + 1)}

InitClient ==
    /\ Started(MkFS(File("ok", Yaml(BaseConfig)), PEM, PEM, File("ok", Yaml(<<Alpha, Bravo>>))))
    /\ client \in {ClientConfig(n, v4, v6, pw) :
                     n \in {"", "alpha"},
                     v4 \in SeqsUpTo(ClientAddrTexts, MaxAddrs),
                     v6 \in SeqsUpTo(ClientAddrTexts, MaxAddrs),
                     pw \in ClientPasswords}
    /\ cerr = "unset"
    /\ last = "none"
    /\ ncalls = 0

SpecClient == InitClient /\ [][NextClient]_vars

\* Config.Validate on rosters over the pool, with and without a backend and
\* a recipient, every other field valid.
InitRoster ==
    /\ \E roster \in SeqsUpTo(ClientPool, MaxClients),
          swift \in {<<>>, <<Backend("swift-1", TRUE)>>},
          ageid \in {<<>>, <<"age1qvalid">>} :
          Started(MkFS(File("ok", Yaml([BaseConfig EXCEPT !.SwiftBackends = swift,
                                                          !.AgeID = ageid])),
                       PEM, PEM, File("ok", Yaml(roster))))
    /\ NoClientCalls

SpecRoster == InitRoster /\ [][NextValidate]_vars

\* Config.Validate on the Prometheus settings, every other field valid.
Creds ==
    {<<>>, Rep("a", 10), Rep("a", MinCredLen - 1), Rep("a", MinCredLen), Rep("Z", 24),
     Rep("7", MaxCredLen), Rep("7", MaxCredLen + 1), Rep("a", MinCredLen - 1) \o <<"-">>,
     Rep("a", 23) \o <<"\n">>}

InitMetrics ==
    /\ \E enabled \in BOOLEAN, user \in Creds, pass \in Creds :
          Started(MkFS(File("ok", Yaml([BaseConfig EXCEPT !.PrometheusEnabled = enabled,
                                                          !.PrometheusAuthUser = user,
                                                          !.PrometheusAuthPass = pass])),
                       PEM, PEM, File("ok", Yaml(<<Alpha, Bravo>>))))
    /\ NoClientCalls

SpecMetrics == InitMetrics /\ [][NextValidate]_vars

\* Config.Validate with every check passing or failing independently.
PrometheusSettings ==
    {<<FALSE, Rep("a", 10), <<>>>>, <<TRUE, Rep("a", 10), Rep("Z", 24)>>,
     <<TRUE, Rep("a", 24), Rep("Z", 24)>>}

RosterSettings ==
    {<<"", File("ok", Yaml(<<Alpha, Bravo>>))>>,
     <<RosterPath, File("ok", Yaml(<<Alpha, Bravo>>))>>,
     <<RosterPath, File("ok", Yaml(<<Golf, Golf>>))>>,
     <<RosterPath, File("ok", Yaml(<<Alpha, Delta>>))>>,
     <<RosterPath, File("ok", Garbage)>>}

InitOrder ==
    /\ \E port \in {-1, 8443, MaxPort + 1}, ram \in {0, 100},
          chain \in {"", ChainPath}, key \in {"ok", "noopen"},
          swift \in {<<>>, <<Backend("swift-1", TRUE)>>, <<Backend("swift-2", FALSE)>>},
          gcs \in {<<>>, <<Backend("gcs-1", FALSE)>>},
          s3 \in {<<>>, <<Backend("s3-1", FALSE)>>},
          enckey \in {"", "hunter2"},
          ageid \in {<<>>, <<"age1qvalid">>, <<"age1qbroken">>},
          agessh \in {<<>>, <<"ssh-rsa broken">>},
          prom \in PrometheusSettings, roster \in RosterSettings :
          Started(MkFS(File("ok", Yaml([BaseConfig EXCEPT
                           !.ListenPort = port, !.MaxUploadRAM = ram,
                           !.TLSChainPath = chain, !.SwiftBackends = swift,
                           !.GCSBackends = gcs, !.S3Backends = s3,
                           !.EncryptionKey = enckey, !.AgeID = ageid, !.AgeSSH = agessh,
                           !.PrometheusEnabled = prom[1], !.PrometheusAuthUser = prom[2],
                           !.PrometheusAuthPass = prom[3], !.ClientFile = roster[1]])),
                       PEM, File(key, Yaml(<<>>)), roster[2]))
    /\ NoClientCalls

SpecOrder == InitOrder /\ [][NextValidate]_vars

\* The whole startup, the roster file changing under it.
Init ==
    /\ \E config \in {File("absent", Yaml(ZeroConfig)), File("ok", Garbage),
                      File("ok", Yaml(BaseConfig)),
                      File("ok", Yaml([BaseConfig EXCEPT !.PrometheusEnabled = TRUE,
                                           !.PrometheusAuthUser = Rep("a", 24),
                                           !.PrometheusAuthPass = Rep("Z", 24)])),
                      File("ok", Yaml([BaseConfig EXCEPT !.SwiftBackends = <<>>]))},
          roster \in RosterRewrites :
          Started(MkFS(config, PEM, PEM, roster))
    /\ NoClientCalls

Spec == Init /\ [][Next]_vars

(***************************************************************************)
(* Properties.                                                             *)
(***************************************************************************)
ValidateJustCalled == last = "Validate"

AddrTextsOf(c) == Range(c.IPv4Addr) \cup Range(c.IPv6Addr)

\* The four conditions of the specification on one client.
FourConditions(c) ==
    /\ c.ClientName # ""
    /\ c.Password = <<>> \/ (Len(c.Password) >= 32 /\ Len(c.Password) <= 128)
    /\ c.Password # <<>> \/ c.IPv4Addr # <<>> \/ c.IPv6Addr # <<>>
    /\ \A t \in AddrTextsOf(c) : ParseIP(t) # NilIP

\* Every address stands in the list of its family: the IPv4 list holds IPv4
\* (or IPv4-mapped) addresses, the IPv6 list holds none of them.
FamilyOK(c) ==
    /\ \A t \in Range(c.IPv4Addr) : To4(ParseIP(t)) # NilIP
    /\ \A t \in Range(c.IPv6Addr) : To4(ParseIP(t)) = NilIP

\* C1 as stated: ClientConfig.Validate succeeds iff the name is non-empty, the
\* password is empty or 32..128 long, one of password/ipv4/ipv6 is non-empty
\* and every address parses, and nothing else affects the result.
C1_FourConditionsOnly ==
    ValidateJustCalled => (cerr = Nil <=> FourConditions(client))

\* C1 amended: ClientConfig.Validate succeeds iff the four conditions hold and
\* every address stands in the list of its own family.
C1_FourConditionsAndFamily ==
    ValidateJustCalled => (cerr = Nil <=> FourConditions(client) /\ FamilyOK(client))

\* A client meeting the four conditions is rejected for an IPv6 address in
\* its IPv4 list.
C1_Witness ==
    /\ ValidateJustCalled
    /\ FourConditions(client)
    /\ cerr = "Client contains a non-IPv4 in IPv4 list"

\* C10: the accessors leave the client unchanged, so Validate returns the
\* same result before and after any accessor calls.
C10_ValidateResultStable == [][cerr # "unset" => cerr' = cerr]_vars

\* The roster in the file (it does not change while Config.Validate is
\* checked alone) and the roster Config.Validate decoded.
RosterInFile == fs[RosterPath].data.doc

RosterSeen == RosterOf(vfc).value

ParsedAddrs(c) == (Range(IPv4(c)) \cup Range(IPv6(c))) \ {NilIP}

SharesName(cs) ==
    \E i, j \in 1..Len(cs) : i # j /\ cs[i].ClientName = cs[j].ClientName

SharesPassword(cs) ==
    \E i, j \in 1..Len(cs) :
        i # j /\ cs[i].Password # <<>> /\ cs[i].Password = cs[j].Password

SharesIP(cs) ==
    \E i, j \in 1..Len(cs) : i # j /\ ParsedAddrs(cs[i]) \cap ParsedAddrs(cs[j]) # {}

MaxListLen(cs) ==
    LET lens == {Len(cs[i].IPv4Addr) : i \in 1..Len(cs)} \cup
                {Len(cs[i].IPv6Addr) : i \in 1..Len(cs)} \cup {0}
    IN CHOOSE n \in lens : \A m \in lens : m <= n

\* Every listed address, of any client and either list, is listed once.
ListedAddrs(cs) ==
    {<<i, 4, k>> : i \in 1..Len(cs), k \in 1..MaxListLen(cs)} \cup
    {<<i, 6, k>> : i \in 1..Len(cs), k \in 1..MaxListLen(cs)}

Listed(cs, p) ==
    LET list == IF p[2] = 4 THEN IPv4(cs[p[1]]) ELSE IPv6(cs[p[1]])
    IN IF p[3] <= Len(list) THEN list[p[3]] ELSE NilIP

AllAddrsDistinct(cs) ==
    \A p, q \in ListedAddrs(cs) :
        p # q /\ Listed(cs, p) # NilIP => Listed(cs, p) # Listed(cs, q)

\* C2: Config.Validate fails for a roster in which two entries share a name,
\* a non-empty password or an address (compared as parsed); and it succeeds
\* for a non-empty roster of individually valid clients with distinct names,
\* passwords and addresses, given a backend, a recipient and otherwise valid
\* fields.
C2_RosterUniqueness ==
    verr # "unset" =>
        LET cs == RosterInFile
        IN /\ SharesName(cs) \/ SharesPassword(cs) \/ SharesIP(cs) => verr # Nil
           /\ ( /\ Len(cs) > 0
                /\ \A i \in 1..Len(cs) : FourConditions(cs[i]) /\ FamilyOK(cs[i])
                /\ ~SharesName(cs)
                /\ ~SharesPassword(cs)
                /\ AllAddrsDistinct(cs)
                /\ Len(conf.SwiftBackends) + Len(conf.GCSBackends) + Len(conf.S3Backends) >= 1
                /\ Len(conf.AgeID) + Len(conf.AgeSSH) >= 1 )
              => verr = Nil

\* Two valid clients list one address under two spellings and are rejected.
C2_Witness ==
    /\ Len(RosterInFile) = 2
    /\ SharesIP(RosterInFile)
    /\ AddrTextsOf(RosterInFile[1]) \cap AddrTextsOf(RosterInFile[2]) = {}
    /\ verr = "Client reuses an IP Address"

\* C3 as stated: for an accepted roster at most one client matches any
\* request, whatever its source address and secret.
C3_AtMostOneMatch ==
    verr = Nil =>
        \A ip \in SourceIPs, secret \in Secrets :
            Cardinality(MatchSet(RosterSeen, ip, secret)) <= 1

\* C3 amended: for an accepted roster at most one client matches a request by
\* its secret and at most one by its source address.
C3_AtMostOnePerCredential ==
    verr = Nil =>
        \A ip \in SourceIPs, secret \in Secrets :
            /\ Cardinality({i \in 1..Len(RosterSeen) :
                              MatchesPassword(RosterSeen[i], secret)}) <= 1
            /\ Cardinality({i \in 1..Len(RosterSeen) :
                              MatchesIP(RosterSeen[i], ip)}) <= 1

\* An accepted roster and a request carrying the address of one client and
\* the secret of another.
C3_Witness ==
    /\ verr = Nil
    /\ \E ip \in SourceIPs, secret \in Secrets :
          Cardinality(MatchSet(RosterSeen, ip, secret)) = 2

NoBackends(c) == Len(c.SwiftBackends) + Len(c.GCSBackends) + Len(c.S3Backends) = 0

FileUsable(path) == path \in DOMAIN fs /\ fs[path].state = "ok"

PortAndTLSValid ==
    /\ conf.ListenPort >= 0
    /\ conf.ListenPort <= 65535
    /\ conf.TLSChainPath # ""
    /\ FileUsable(conf.TLSChainPath)
    /\ conf.TLSKeyPath # ""
    /\ FileUsable(conf.TLSKeyPath)

\* C4 as stated: with no backend configured Config.Validate returns the
\* "needs at least one backend" error, whatever the other fields are.
C4_AlwaysBackendError ==
    verr # "unset" /\ NoBackends(conf) =>
        verr = "eldim needs at least one backend to operate, 0 found"

\* C4 amended: with no backend configured Config.Validate fails, and the
\* error is the "needs at least one backend" error exactly when the listening
\* port and the TLS chain and key files, which are checked before, are valid.
C4_BackendErrorAfterPortAndTLS ==
    verr # "unset" /\ NoBackends(conf) =>
        /\ verr # Nil
        /\ PortAndTLSValid <=>
               verr = "eldim needs at least one backend to operate, 0 found"

\* No backend, and the fields checked later are invalid as well.
C4_Witness ==
    /\ NoBackends(conf)
    /\ verr = "eldim needs at least one backend to operate, 0 found"
    /\ conf.MaxUploadRAM <= 0
    /\ conf.EncryptionKey # ""

CredOK(s) == Len(s) >= 20 /\ Len(s) <= 128 /\ Range(s) \subseteq AlnumChars

\* C5: with every other field valid and metrics enabled Config.Validate
\* succeeds iff user and password are 20..128 alphanumeric characters; with
\* metrics disabled they are not checked.
C5_MetricsCredentials ==
    verr # "unset" =>
        IF conf.PrometheusEnabled
        THEN verr = Nil <=>
                 CredOK(conf.PrometheusAuthUser) /\ CredOK(conf.PrometheusAuthPass)
        ELSE verr = Nil

\* Metrics enabled with a 24-character pair is accepted.
C5_Witness ==
    /\ verr = Nil
    /\ conf.PrometheusEnabled
    /\ Len(conf.PrometheusAuthUser) = 24
    /\ Len(conf.PrometheusAuthPass) = 24

\* The order of checks the specification gives, as groups of checks.
StatedOrder ==
    << {"ListenPort"}, {"TLSChain"}, {"TLSKey"}, {"SwiftBackends"}, {"GCSBackends"},
       {"S3Backends"}, {"AnyBackend"}, {"MaxUploadRAM"}, {"EncryptionKey"},
       {"AnyRecipient"}, {"AgeID", "AgeSSH"}, {"Prometheus"}, {"ClientFile"},
       {"EachClient"}, {"UniqueClients"} >>

\* The groups of the stated order with a check that, taken on its own,
\* fails: ch is the list of checks with the error each returns.
FailingGroupsOf(ch) ==
    {g \in 1..Len(StatedOrder) :
        \E i \in 1..Len(ch) : ch[i].check \in StatedOrder[g] /\ ch[i].err # Nil}

FailingGroups == FailingGroupsOf(ValidateChecks(conf, fs))

Least(S) == CHOOSE g \in S : \A h \in S : g <= h

\* C6: Config.Validate returns the error of the earliest failing check in the
\* stated order, a single error, and evaluates no check after it.
C6_FirstErrorWins ==
    verr # "unset" =>
        \A ch \in {ValidateChecks(conf, fs)} :
            \A failing \in {FailingGroupsOf(ch)} :
                IF failing = {}
                THEN verr = Nil
                ELSE \A first \in {Least(failing)} :
                        /\ \E i \in 1..Len(ch) :
                              /\ ch[i].check \in StatedOrder[first]
                              /\ ch[i].err = verr
                        /\ verr # Nil
                        /\ \A i \in 1..veval :
                              \E g \in 1..first : ch[i].check \in StatedOrder[g]

\* Three or more checks would fail and one error came back.
C6_Witness ==
    /\ verr \notin {"unset", Nil}
    /\ \A failing \in {FailingGroups} : Cardinality(failing) >= 3 /\ Least(failing) > 3

StartupOrder ==
    <<"ReadConfig", "ParseConfig", "Validate", "ReadClients", "ParseClients", "Routes",
      "Listen">>

\* C7: routes are registered and requests served only after the configuration
\* was read, parsed and validated without error and the roster was read and
\* parsed, in this order; a failed step, or a failed bind, ends the process
\* with no request served.
C7_ServeOnlyAfterStartup ==
    /\ steps = SubSeq(StartupOrder, 1, Len(steps))
    /\ routes # {} \/ pc = "serving" \/ served > 0 =>
           /\ SubSeq(steps, 1, 5) = SubSeq(StartupOrder, 1, 5)
           /\ verr = Nil
    /\ fatal # "none" => pc = "exit" /\ served = 0 /\ Len(steps) < Len(StartupOrder)
    /\ pc = "exit" => fatal # "none" /\ ~ENABLED Next

\* The server answered a request.
C7_Witness == pc = "serving" /\ served > 0 /\ routes # {}

\* C8: Config.Validate fails whenever the deprecated encryption key is set,
\* and, with it unset, whenever no recipient is configured.
C8_DeprecatedKeyAndRecipients ==
    verr # "unset" =>
        /\ conf.EncryptionKey # "" => verr # Nil
        /\ conf.EncryptionKey = "" /\ Len(conf.AgeID) + Len(conf.AgeSSH) = 0 => verr # Nil

\* The deprecated key is the only fault of a configuration with a valid
\* recipient, and it is rejected for it.
C8_Witness ==
    /\ verr = "Use of encryption key is deprecated since v0.6.0"
    /\ conf.AgeID = <<"age1qvalid">>
    /\ conf.AgeSSH = <<>>
    /\ Cardinality(FailingGroups) = 1

\* C9: the roster the serving process holds passed validation: every entry is
\* individually valid and names, passwords and addresses are distinct.
C9_ServedRosterValidated ==
    pc = "serving" =>
        /\ \A i \in 1..Len(clients) : ClientValidate(clients[i]) = Nil
        /\ ~SharesName(clients)
        /\ ~SharesPassword(clients)
        /\ AllAddrsDistinct(clients)

====
